---- MODULE Spec2Model ----
(***************************************************************************)
(* Authentication core of the learning-management backend:                *)
(*   app/core/security_utils.py  sanitizer, password policy               *)
(*   app/core/security.py        hashing, token issue / decode            *)
(*   app/core/auth.py            authorization gate, role gates           *)
(*   app/routers/auth.py         login, refresh-token, password reset     *)
(*   app/routers/users.py        admin update of a user record            *)
(* Time is in whole seconds, the resolution at which the JWT library      *)
(* stores exp/iat and compares them with the clock.                       *)
(***************************************************************************)
EXTENDS Integers, Sequences, FiniteSets, TLC

VARIABLES users, now, held, req, resp, trace

vars == <<users, now, held, req, resp, trace>>

(***************************************************************************)
(* Bounds of the model                                                     *)
(***************************************************************************)
MaxTicks == 2

(***************************************************************************)
(* Settings (app/core/config.py)                                           *)
(***************************************************************************)
ACCESS_TOKEN_EXPIRE_MINUTES == 30
REFRESH_TOKEN_EXPIRE_DAYS == 7
MIN_PASSWORD_LENGTH == 12
PASSWORD_REQUIRE_UPPERCASE == TRUE
PASSWORD_REQUIRE_LOWERCASE == TRUE
PASSWORD_REQUIRE_DIGIT == TRUE
PASSWORD_REQUIRE_SPECIAL == TRUE

\* Python's None for a string-valued slot
None == "None"

(***************************************************************************)
(* sanitize_input: bleach.clean(value, tags=[], strip=True).  Markup is    *)
(* stripped and a bare ampersand is escaped; text without markup is left   *)
(* as it is.  Strings are atomic values here, so the function is given on  *)
(* the strings the model uses.                                             *)
(***************************************************************************)
AliceEmail == "alice@x.io"
BobEmail == "bob@x.io"
CarolEmail == "carol@x.io"
BobMarkup == "<b>bob@x.io</b>"
AmpEmail == "a&b@x.io"

sanitize_input(value) ==
    CASE value = None -> None
      [] value = BobMarkup -> BobEmail
      [] value = AmpEmail -> "a&amp;b@x.io"
      [] OTHER -> value

(***************************************************************************)
(* Passwords are sequences of one-character strings.                       *)
(***************************************************************************)
LowerChars == <<"a","b","c","d","e","f","g","h","i","j","k","l","m",
                "n","o","p","q","r","s","t","u","v","w","x","y","z">>
UpperChars == <<"A","B","C","D","E","F","G","H","I","J","K","L","M",
                "N","O","P","Q","R","S","T","U","V","W","X","Y","Z">>
DigitChars == <<"0","1","2","3","4","5","6","7","8","9">>
SpecialChars == {"!","@","#","$","%","^","&","*","(",")",",",".","?","\"",":","{","}","|","<",">"}

Range(s) == {s[i] : i \in DOMAIN s}

IndexIn(s, c) == CHOOSE i \in DOMAIN s : s[i] = c

\* str.lower() on one character
LowerChar(c) == IF c \in Range(UpperChars) THEN LowerChars[IndexIn(UpperChars, c)] ELSE c

\* str.lower()
Lower(p) == [i \in DOMAIN p |-> LowerChar(p[i])]

CommonPasswords ==
    { <<"p","a","s","s","w","o","r","d">>,
      <<"1","2","3","4","5","6">>,
      <<"q","w","e","r","t","y">>,
      <<"a","d","m","i","n">>,
      <<"w","e","l","c","o","m","e">>,
      <<"p","a","s","s","w","o","r","d","1","2","3">> }

\* the alternatives of the sequential-characters pattern: abc .. xyz,
\* 012 .. 789 and 987 .. 210
SequentialTriples ==
    {<<LowerChars[i], LowerChars[i+1], LowerChars[i+2]>> : i \in 1..24}
    \cup {<<DigitChars[i], DigitChars[i+1], DigitChars[i+2]>> : i \in 1..8}
    \cup {<<DigitChars[i+2], DigitChars[i+1], DigitChars[i]>> : i \in 1..8}

HasSequential(p) ==
    \E i \in 1..(Len(p) - 2) : <<p[i], p[i+1], p[i+2]>> \in SequentialTriples

\* (.)\1{2,}
HasRepeated(p) ==
    \E i \in 1..(Len(p) - 2) : p[i] = p[i+1] /\ p[i+1] = p[i+2]

PolicyResult(valid, message) == [valid |-> valid, message |-> message]

\* variant: the length check comes after the character-class checks
validate_password_strength_LengthAfterClasses(password) ==
    IF PASSWORD_REQUIRE_UPPERCASE /\ Range(password) \cap Range(UpperChars) = {}
      THEN PolicyResult(FALSE, "Password must contain at least one uppercase letter")
    ELSE IF PASSWORD_REQUIRE_LOWERCASE /\ Range(password) \cap Range(LowerChars) = {}
      THEN PolicyResult(FALSE, "Password must contain at least one lowercase letter")
    ELSE IF PASSWORD_REQUIRE_DIGIT /\ Range(password) \cap Range(DigitChars) = {}
      THEN PolicyResult(FALSE, "Password must contain at least one digit")
    ELSE IF PASSWORD_REQUIRE_SPECIAL /\ Range(password) \cap SpecialChars = {}
      THEN PolicyResult(FALSE, "Password must contain at least one special character")
    ELSE IF Len(password) < MIN_PASSWORD_LENGTH
      THEN PolicyResult(FALSE, "Password must be at least 12 characters long")
    ELSE IF Lower(password) \in CommonPasswords
      THEN PolicyResult(FALSE, "This password is too common and easily guessed")
    ELSE IF HasSequential(Lower(password))
      THEN PolicyResult(FALSE, "Password contains sequential characters")
    ELSE IF HasRepeated(password)
      THEN PolicyResult(FALSE, "Password contains too many repeated characters")
    ELSE PolicyResult(TRUE, "Password is strong")

validate_password_strength(password) ==
    IF Len(password) < MIN_PASSWORD_LENGTH
      THEN PolicyResult(FALSE, "Password must be at least 12 characters long")
    ELSE IF PASSWORD_REQUIRE_UPPERCASE /\ Range(password) \cap Range(UpperChars) = {}
      THEN PolicyResult(FALSE, "Password must contain at least one uppercase letter")
    ELSE IF PASSWORD_REQUIRE_LOWERCASE /\ Range(password) \cap Range(LowerChars) = {}
      THEN PolicyResult(FALSE, "Password must contain at least one lowercase letter")
    ELSE IF PASSWORD_REQUIRE_DIGIT /\ Range(password) \cap Range(DigitChars) = {}
      THEN PolicyResult(FALSE, "Password must contain at least one digit")
    ELSE IF PASSWORD_REQUIRE_SPECIAL /\ Range(password) \cap SpecialChars = {}
      THEN PolicyResult(FALSE, "Password must contain at least one special character")
    ELSE IF Lower(password) \in CommonPasswords
      THEN PolicyResult(FALSE, "This password is too common and easily guessed")
    ELSE IF HasSequential(Lower(password))
      THEN PolicyResult(FALSE, "Password contains sequential characters")
    ELSE IF HasRepeated(password)
      THEN PolicyResult(FALSE, "Password contains too many repeated characters")
    ELSE PolicyResult(TRUE, "Password is strong")

(***************************************************************************)
(* Hashing (passlib CryptContext, scheme bcrypt).  A hash is the scheme    *)
(* and the password it was made from; verify compares against it.         *)
(***************************************************************************)
BcryptHash(password) == [scheme |-> "bcrypt", pw |-> password]

\* no hash at all (None)
NoHash == [scheme |-> "none", pw |-> <<>>]

\* a string no scheme of the context recognises as one of its hashes
MalformedHash == [scheme |-> "unknown", pw |-> <<>>]

\* variant: the password is hashed without being validated
get_password_hash_NoValidation(password) ==
    [raised |-> FALSE, error |-> "", message |-> "", hash |-> BcryptHash(password)]

\* get_password_hash: the hash, or the ValueError carrying the policy message
get_password_hash(password) ==
    LET validation == validate_password_strength(password) IN
    IF ~validation.valid
      THEN [raised |-> TRUE, error |-> "ValueError", message |-> validation.message,
            hash |-> NoHash]
      ELSE [raised |-> FALSE, error |-> "", message |-> "",
            hash |-> BcryptHash(password)]

AlicePassword == <<"S","t","r","0","n","g","!","P","a","s","s","9">>
BobPassword == <<"W","i","n","t","e","r","#","2","0","2","6","x">>
WeakPassword == <<"s","h","o","r","t","1","A","!">>
DummyPlain == <<"d","u","m","m","y">>

\* the fixed hash login verifies against when no account was found
DummyHash == BcryptHash(DummyPlain)

(***************************************************************************)
(* Outcomes of a call: a returned value or a raised exception.             *)
(***************************************************************************)
NoValue == [none |-> None]

Return(v) ==
    [raised |-> FALSE, kind |-> "", status |-> 200, detail |-> "", www |-> "", value |-> v]

HTTPException(status_code, detail, www) ==
    [raised |-> TRUE, kind |-> "HTTPException", status |-> status_code,
     detail |-> detail, www |-> www, value |-> NoValue]

\* any exception that is not an HTTPException
Raise(kind) ==
    [raised |-> TRUE, kind |-> kind, status |-> 0, detail |-> "", www |-> "", value |-> NoValue]

\* what the client is sent for an outcome: an exception that is no
\* HTTPException leaves the handler and the logging middleware answers it
\* with its own 500
Respond(out) ==
    IF out.raised /\ out.kind # "HTTPException"
      THEN [status |-> 500, detail |-> "Internal server error", www |-> "", value |-> NoValue]
      ELSE [status |-> out.status, detail |-> out.detail, www |-> out.www, value |-> out.value]

\* what a Python expression evaluates to, kept with its type
PyBool(b) == [pytype |-> "bool", is_true |-> b]

PyNone == [pytype |-> "NoneType", is_true |-> FALSE]

\* pwd_context.verify: no hash (None) verifies as False; else the context
\* identifies the scheme of the hash, and raises when no scheme of its list
\* claims it; else the scheme compares
verify_password(plain_password, hashed_password) ==
    IF hashed_password = NoHash THEN Return(PyBool(FALSE))
    ELSE IF hashed_password.scheme # "bcrypt" THEN Raise("UnknownHashError")
    ELSE Return(PyBool(hashed_password.pw = plain_password))

(***************************************************************************)
(* Tokens (python-jose, HS256).  A token is its claims under a signature;  *)
(* claims are a mapping from claim names to values.                        *)
(***************************************************************************)
IntClaims == {"exp", "iat", "user_id"}

Get(mapping, key, default) == IF key \in DOMAIN mapping THEN mapping[key] ELSE default

\* dict.update
Update(d, e) == [k \in DOMAIN d \cup DOMAIN e |-> IF k \in DOMAIN e THEN e[k] ELSE d[k]]

\* "for key, value in to_encode.items(): if isinstance(value, str): sanitize"
SanitizeStrings(c) == [k \in DOMAIN c |-> IF k \in IntClaims THEN c[k] ELSE sanitize_input(c[k])]

jwt_encode(claims) == [form |-> "jwt", sig |-> "valid", claims |-> claims]

NoClaims == [none |-> None]

NoToken == [form |-> "none", sig |-> "none", claims |-> NoClaims]

GarbageToken == [form |-> "garbage", sig |-> "none", claims |-> NoClaims]

\* the same token with a signature that does not verify
Tamper(token) == [token EXCEPT !.sig = "tampered"]

\* variant: decoding with the expiry check switched off
jwt_decode_NoExpiry(token, t) ==
    IF token.form # "jwt" THEN Raise("JWTError")
    ELSE IF token.sig # "valid" THEN Raise("JWTError")
    ELSE Return(token.claims)

\* jwt.decode: structure, then signature, then the exp claim against the clock
jwt_decode(token, t) ==
    IF token.form # "jwt" THEN Raise("JWTError")
    ELSE IF token.sig # "valid" THEN Raise("JWTError")
    ELSE IF "exp" \in DOMAIN token.claims /\ token.claims["exp"] < t
      THEN Raise("ExpiredSignatureError")
    ELSE Return(token.claims)

JWTErrors == {"JWTError", "ExpiredSignatureError", "JWTClaimsError"}

\* timedelta(minutes=...) and timedelta(days=...) in seconds
AccessTokenSeconds == ACCESS_TOKEN_EXPIRE_MINUTES * 60
RefreshTokenSeconds == REFRESH_TOKEN_EXPIRE_DAYS * 86400

\* variant: the claims are encoded as they were given
create_access_token_NoSanitize(data, expires_delta, t) ==
    LET expire == IF expires_delta # 0 THEN t + expires_delta ELSE t + AccessTokenSeconds
        to_encode == Update(data, [exp |-> expire, type |-> "access", iat |-> t])
    IN  jwt_encode(to_encode)

\* expires_delta = 0 stands for None (and for a zero timedelta, equally falsy)
create_access_token(data, expires_delta, t) ==
    LET expire == IF expires_delta # 0 THEN t + expires_delta ELSE t + AccessTokenSeconds
        to_encode == Update(data, [exp |-> expire, type |-> "access", iat |-> t])
    IN  jwt_encode(SanitizeStrings(to_encode))

create_refresh_token(data, t) ==
    LET expire == t + RefreshTokenSeconds
        to_encode == Update(data, [exp |-> expire, type |-> "refresh", iat |-> t])
    IN  jwt_encode(SanitizeStrings(to_encode))

\* variant: the claims of the caller win over the ones the function sets
IssueTokens_CallerWins(data, expires_delta, t) ==
    [access_token |-> jwt_encode(SanitizeStrings(
                          Update(create_access_token(data, expires_delta, t).claims, data))),
     refresh_token |-> jwt_encode(SanitizeStrings(
                          Update(create_refresh_token(data, t).claims, data))),
     data |-> data]

\* a call of each issuing function with the same mapping, and the mapping
\* as the caller finds it afterwards: "to_encode = data.copy()" keeps every
\* later write away from it
IssueTokens(data, expires_delta, t) ==
    [access_token |-> create_access_token(data, expires_delta, t),
     refresh_token |-> create_refresh_token(data, t),
     data |-> data]

CredentialsError == HTTPException(401, "Could not validate credentials", "Bearer")

\* variant: an expired token is reported with a message of its own
decode_token_ExpiredDetail(token, t) ==
    LET payload == jwt_decode(token, t) IN
    IF payload.raised /\ payload.kind = "ExpiredSignatureError"
      THEN HTTPException(401, "Token has expired", "Bearer")
    ELSE IF payload.raised /\ payload.kind \in JWTErrors
      THEN CredentialsError
      ELSE payload

decode_token(token, t) ==
    LET payload == jwt_decode(token, t) IN
    IF payload.raised /\ payload.kind \in JWTErrors
      THEN CredentialsError
      ELSE payload

(***************************************************************************)
(* The user table (models.User) and the persistence layer.  A request     *)
(* meets the database in one of DbModes: working, failing on a query, or  *)
(* failing on commit.                                                     *)
(***************************************************************************)
Roles == {"user", "instructor", "admin"}

DbModes == {"ok", "query_fails", "commit_fails"}

User(id, email, password, role, is_active) ==
    [id |-> id, email |-> email, hashed_password |-> BcryptHash(password),
     role |-> role, is_active |-> is_active]

\* db.query(models.User).filter(models.User.email == email).first()
ByEmail(U, email) == {u \in U : u.email = email}

ById(U, id) == {u \in U : u.id = id}

First(S) == CHOOSE u \in S : TRUE

(***************************************************************************)
(* Authorization gate (app/core/auth.py)                                   *)
(***************************************************************************)
\* variant: the type check refuses "refresh" instead of requiring "access"
GateTypeOk_NotRefresh(payload) == Get(payload, "type", None) # "refresh"

\* "if payload.get("type") != "access""
GateTypeOk(payload) == Get(payload, "type", None) = "access"

\* variant: the is_active check is missing
GateLookup_NoActive(email, db, U) ==
    IF db = "query_fails" THEN Raise("SQLAlchemyError")
    ELSE IF ByEmail(U, email) = {} THEN HTTPException(401, "Could not validate credentials", "Bearer")
    ELSE Return(First(ByEmail(U, email)))

\* the second try block of get_current_user, before its except clause
GateLookup(email, db, U) ==
    IF db = "query_fails" THEN Raise("SQLAlchemyError")
    ELSE IF ByEmail(U, email) = {} THEN CredentialsError
    ELSE IF ~First(ByEmail(U, email)).is_active THEN HTTPException(403, "Inactive user", "")
    ELSE Return(First(ByEmail(U, email)))

\* variant: what the block raises leaves the gate as it is
GateLookupGuarded_Propagate(email, db, U) == GateLookup(email, db, U)

\* "except Exception": every exception of the block, the HTTPExceptions
\* raised inside it included
GateLookupGuarded(email, db, U) ==
    IF GateLookup(email, db, U).raised
      THEN HTTPException(500, "Internal server error", "")
      ELSE GateLookup(email, db, U)

\* variant: a token is accepted only at the second it was issued
get_current_user_FreshOnly(token, db, t, U) ==
    LET decoded == decode_token(token, t)
        payload == decoded.value
        email == Get(payload, "sub", None)
    IN  IF decoded.raised THEN decoded
        ELSE IF ~GateTypeOk(payload) THEN CredentialsError
        ELSE IF email = None THEN CredentialsError
        ELSE IF Get(payload, "iat", t) < t THEN CredentialsError
        ELSE GateLookupGuarded(sanitize_input(email), db, U)

get_current_user(token, db, t, U) ==
    LET decoded == decode_token(token, t)
        payload == decoded.value
        email == Get(payload, "sub", None)
    IN  IF decoded.raised THEN decoded
        ELSE IF ~GateTypeOk(payload) THEN CredentialsError
        ELSE IF email = None THEN CredentialsError
        ELSE GateLookupGuarded(sanitize_input(email), db, U)

\* request.state as get_current_user leaves it: user_email and user_role are
\* set from the payload at the end of the first try block, user_id from the
\* user record just before the return (None: not set)
NoState == [user_email |-> None, user_role |-> None, user_id |-> None]

RequestState(token, db, t, U) ==
    LET decoded == decode_token(token, t)
        payload == decoded.value
        email == Get(payload, "sub", None)
        user == get_current_user(token, db, t, U)
    IN  IF decoded.raised \/ ~GateTypeOk(payload) \/ email = None THEN NoState
        ELSE [user_email |-> sanitize_input(email),
              user_role |-> sanitize_input(Get(payload, "role", "")),
              user_id |-> IF user.raised THEN None ELSE user.value.id]

get_current_active_user(token, db, t, U) ==
    LET current_user == get_current_user(token, db, t, U) IN
    IF current_user.raised THEN current_user
    ELSE IF ~current_user.value.is_active
      THEN HTTPException(403, "Inactive user account", "")
    ELSE current_user

PermissionError ==
    HTTPException(403, "You don't have sufficient permissions to perform this action", "")

\* variant: the decision is taken on the role claim of the token
get_admin_user_TokenRole(token, db, t, U) ==
    LET current_user == get_current_user(token, db, t, U) IN
    IF current_user.raised THEN current_user
    ELSE IF Get(token.claims, "role", None) # "admin" THEN PermissionError
    ELSE current_user

get_admin_user(token, db, t, U) ==
    LET current_user == get_current_user(token, db, t, U) IN
    IF current_user.raised THEN current_user
    ELSE IF current_user.value.role # "admin" THEN PermissionError
    ELSE current_user

\* variant: the instructor role is not among the admitted roles
get_instructor_or_admin_user_AdminOnly(token, db, t, U) ==
    LET current_user == get_current_user(token, db, t, U) IN
    IF current_user.raised THEN current_user
    ELSE IF current_user.value.role \notin {"admin"} THEN PermissionError
    ELSE current_user

get_instructor_or_admin_user(token, db, t, U) ==
    LET current_user == get_current_user(token, db, t, U) IN
    IF current_user.raised THEN current_user
    ELSE IF current_user.value.role \notin {"admin", "instructor"} THEN PermissionError
    ELSE current_user

(***************************************************************************)
(* Resource ownership (app/core/auth.py).  "x and y" is x when x is falsy.  *)
(***************************************************************************)
\* db.query(model).filter(model.id == resource_id).first()
QueryFirst(db, table, resource_id) ==
    IF db = "query_fails" THEN Raise("SQLAlchemyError")
    ELSE IF ById(table, resource_id) = {} THEN Return(PyNone)
    ELSE Return(First(ById(table, resource_id)))

\* variant: an existing resource counts as owned, whoever asks
verify_resource_owner_AnyUser(resource_id, resource_type, user_id, db, courses, blog_posts) ==
    LET course == QueryFirst(db, courses, resource_id)
        post == QueryFirst(db, blog_posts, resource_id)
    IN  IF resource_type = "course"
          THEN IF course.raised THEN course
               ELSE IF course.value = PyNone THEN Return(PyNone)
               ELSE Return(PyBool(TRUE))
        ELSE IF resource_type = "blog"
          THEN IF post.raised THEN post
               ELSE IF post.value = PyNone THEN Return(PyNone)
               ELSE Return(PyBool(TRUE))
        ELSE Return(PyBool(FALSE))

\* "return resource and resource.instructor_id == user_id"
verify_resource_owner(resource_id, resource_type, user_id, db, courses, blog_posts) ==
    LET course == QueryFirst(db, courses, resource_id)
        post == QueryFirst(db, blog_posts, resource_id)
    IN  IF resource_type = "course"
          THEN IF course.raised THEN course
               ELSE IF course.value = PyNone THEN Return(PyNone)
               ELSE Return(PyBool(course.value.instructor_id = user_id))
        ELSE IF resource_type = "blog"
          THEN IF post.raised THEN post
               ELSE IF post.value = PyNone THEN Return(PyNone)
               ELSE Return(PyBool(post.value.author_id = user_id))
        ELSE Return(PyBool(FALSE))

(***************************************************************************)
(* Login (app/routers/auth.py).  The outcome, the steps taken in order,   *)
(* and the hash handed to verify_password.                                *)
(***************************************************************************)
InvalidCredentials == HTTPException(401, "Invalid login credentials", "Bearer")

AccountDeactivated == HTTPException(403, "This account has been deactivated", "")

LoginResult(out, steps, hash) == [out |-> out, steps |-> steps, verify_hash |-> hash]

\* variant: no verification when the lookup found no account
LoginVerifyHash_SkipUnknown(found) ==
    IF found # {} THEN First(found).hashed_password ELSE NoHash

\* the hash verify_password is called with: the account's, or the dummy
\* (NoHash: no call is made)
LoginVerifyHash(found) ==
    IF found # {} THEN First(found).hashed_password ELSE DummyHash

\* variant: the role claim is the default role, not the account's
LoginTokenData_DefaultRole(user) == [sub |-> user.email, role |-> "user", user_id |-> user.id]

LoginTokenData(user) == [sub |-> user.email, role |-> user.role, user_id |-> user.id]

LoginTokens(user, t) ==
    [access_token |-> create_access_token(LoginTokenData(user), AccessTokenSeconds, t),
     refresh_token |-> create_refresh_token(LoginTokenData(user), t),
     token_type |-> "bearer"]

\* variant: an unknown account is reported as such
LoginChecks_UserNotFound(found, is_valid) ==
    IF found = {} THEN HTTPException(404, "User not found", "")
    ELSE IF ~is_valid THEN InvalidCredentials
    ELSE IF ~First(found).is_active THEN AccountDeactivated
    ELSE Return(NoValue)

\* variant: the account's is_active flag is looked at before the password
LoginChecks_ActiveFirst(found, is_valid) ==
    IF found # {} /\ ~First(found).is_active THEN AccountDeactivated
    ELSE IF ~is_valid THEN InvalidCredentials
    ELSE Return(NoValue)

\* variant: the is_active check is missing
LoginChecks_NoActive(found, is_valid) ==
    IF ~is_valid THEN InvalidCredentials ELSE Return(NoValue)

\* "if not is_valid: ... raise 401" and "if not user.is_active: raise 403"
LoginChecks(found, is_valid) ==
    IF ~is_valid THEN InvalidCredentials
    ELSE IF found = {} THEN Raise("AttributeError")
    ELSE IF ~First(found).is_active THEN AccountDeactivated
    ELSE Return(NoValue)

\* variant: the 401 is raised without the delay
LoginFailureSteps_NoSleep(checks) ==
    IF checks.status = 401 THEN <<"log_failed", "raise">> ELSE <<"raise">>

\* variant: the attempt is stamped on the account before the failure is raised
LoginFailureSteps_Stamp(checks) ==
    IF checks.status = 401 THEN <<"set_last_login", "commit", "log_failed", "sleep", "raise">>
    ELSE <<"set_last_login", "commit", "raise">>

\* what login does once a check has failed: the 401 is logged, delayed by
\* "await asyncio.sleep(0.5)" and raised; the 403 is raised at once
LoginFailureSteps(checks) ==
    IF checks.status = 401 THEN <<"log_failed", "sleep", "raise">> ELSE <<"raise">>

\* asyncio.sleep(0.5), in milliseconds
LOGIN_FAILURE_SLEEP_MS == 500

\* the time the steps spent in asyncio.sleep
SleptMs(steps) == Cardinality({i \in DOMAIN steps : steps[i] = "sleep"}) * LOGIN_FAILURE_SLEEP_MS

\* variant: whatever verify_password returned counts, dummy hash or not
LoginIsValid_AnyVerification(found, verified) == verified.value.is_true

\* "is_valid = False; if user: is_valid = verify_password(...)": the result
\* of the call with the dummy hash is dropped
LoginIsValid(found, verified) == IF found # {} THEN verified.value.is_true ELSE FALSE

\* the body of the try block.  user.last_login is no column of models.User:
\* the commit that follows it has nothing to write
LoginBody(form_username, form_password, db, t, U) ==
    LET username == sanitize_input(form_username)
        found == ByEmail(U, username)
        hash == LoginVerifyHash(found)
        verified == verify_password(form_password, hash)
        is_valid == LoginIsValid(found, verified)
        checks == LoginChecks(found, is_valid)
        upto_verify == <<"sanitize", "query">>
                       \o (IF hash # NoHash THEN <<"verify_password">> ELSE <<>>)
    IN  IF db = "query_fails"
          THEN LoginResult(Raise("SQLAlchemyError"), <<"sanitize", "query">>, NoHash)
        ELSE IF verified.raised
          THEN LoginResult(verified, upto_verify, hash)
        ELSE IF checks.raised
          THEN LoginResult(checks, upto_verify \o LoginFailureSteps(checks), hash)
        ELSE LoginResult(Return(LoginTokens(First(found), t)),
                         upto_verify \o <<"set_last_login", "commit", "log_login",
                                          "create_access_token", "create_refresh_token",
                                          "return">>, hash)

\* "except Exception as e: if not isinstance(e, HTTPException): ... 500"
login(form_username, form_password, db, t, U) ==
    LET body == LoginBody(form_username, form_password, db, t, U) IN
    IF body.out.raised /\ body.out.kind # "HTTPException"
      THEN LoginResult(HTTPException(500, "Authentication failed. Please try again later.", ""),
                       body.steps \o <<"log_error", "raise">>, body.verify_hash)
      ELSE body

(***************************************************************************)
(* Refresh (app/routers/auth.py)                                           *)
(***************************************************************************)
\* the names app/core/security.py binds at module level
SecurityModuleNames ==
    {"datetime", "timedelta", "Optional", "Dict", "Any", "jwt", "JWTError",
     "CryptContext", "BaseModel", "Request", "HTTPException", "status", "settings",
     "sanitize_input", "validate_password_strength", "pwd_context", "TokenData",
     "verify_password", "get_password_hash", "create_access_token",
     "create_refresh_token", "decode_token"}

\* "from app.core.security import SECRET_KEY, ALGORITHM"
RefreshImportOk == {"SECRET_KEY", "ALGORITHM"} \subseteq SecurityModuleNames

RefreshTokenData(user) == [sub |-> user.email, role |-> user.role]

\* the body of the try block
RefreshBody(token, db, t, U) ==
    LET decoded == jwt_decode(token, t)
        payload == decoded.value
        email == Get(payload, "sub", None)
        found == ByEmail(U, email)
        user == First(found)
    IN  IF ~RefreshImportOk THEN Raise("ImportError")
        ELSE IF decoded.raised THEN decoded
        ELSE IF Get(payload, "type", None) # "refresh"
          THEN HTTPException(401, "Invalid token type", "Bearer")
        ELSE IF email = None THEN CredentialsError
        ELSE IF db = "query_fails" THEN Raise("SQLAlchemyError")
        ELSE IF found = {} THEN HTTPException(401, "User not found", "Bearer")
        ELSE IF ~user.is_active THEN HTTPException(403, "Inactive user", "")
        ELSE Return([access_token |->
                         create_access_token(RefreshTokenData(user), AccessTokenSeconds, t),
                     refresh_token |-> create_refresh_token(RefreshTokenData(user), t),
                     token_type |-> "bearer"])

\* "except Exception": whatever was raised becomes the one 401
refresh_token(token, db, t, U) ==
    IF RefreshBody(token, db, t, U).raised
      THEN HTTPException(401, "Invalid refresh token", "Bearer")
      ELSE RefreshBody(token, db, t, U)

(***************************************************************************)
(* Password-reset confirmation (app/routers/auth.py)                       *)
(***************************************************************************)
\* a JWT is base64url text and dots: bleach leaves it as it is
SanitizeToken(token) == token

ResetResult(out, U) == [out |-> out, users |-> U]

InvalidResetToken == HTTPException(400, "Invalid or expired token", "")

\* the inner try block: decode, find the user, store the new hash
ResetInner(token, new_password, db, t, U) ==
    LET decoded == decode_token(token, t)
        user_email == Get(decoded.value, "sub", None)
        found == ByEmail(U, user_email)
        user == First(found)
        hashed == get_password_hash(new_password)
    IN  IF decoded.raised THEN ResetResult(decoded, U)
        ELSE IF db = "query_fails" THEN ResetResult(Raise("SQLAlchemyError"), U)
        ELSE IF found = {} THEN ResetResult(InvalidResetToken, U)
        ELSE IF hashed.raised THEN ResetResult(Raise("ValueError"), U)
        ELSE IF db = "commit_fails" THEN ResetResult(Raise("SQLAlchemyError"), U)
        ELSE ResetResult(Return([message |-> "Password has been reset successfully"]),
                         (U \ {user}) \cup {[user EXCEPT !.hashed_password = hashed.hash]})

\* variant: the confirmation does not read reset_data.confirm_password
ResetBody_NoConfirm(reset_data, db, t, U) ==
    LET token == SanitizeToken(reset_data["token"])
        validation == validate_password_strength(reset_data["new_password"])
        inner == ResetInner(token, reset_data["new_password"], db, t, U)
    IN  IF ~validation.valid
          THEN ResetResult(HTTPException(400, validation.message, ""), U)
        ELSE IF inner.out.raised THEN ResetResult(InvalidResetToken, U)
        ELSE inner

\* the outer try block; reset_data maps the fields of the request model
ResetBody(reset_data, db, t, U) ==
    LET token == SanitizeToken(reset_data["token"])
        validation == validate_password_strength(reset_data["new_password"])
        inner == ResetInner(token, reset_data["new_password"], db, t, U)
    IN  IF ~validation.valid
          THEN ResetResult(HTTPException(400, validation.message, ""), U)
        ELSE IF "confirm_password" \notin DOMAIN reset_data
          THEN ResetResult(Raise("AttributeError"), U)
        ELSE IF reset_data["new_password"] # reset_data["confirm_password"]
          THEN ResetResult(HTTPException(400, "Passwords do not match", ""), U)
        ELSE IF inner.out.raised THEN ResetResult(InvalidResetToken, U)
        ELSE inner

\* "except Exception as e: if not isinstance(e, HTTPException): ... 500"
reset_password(reset_data, db, t, U) ==
    LET body == ResetBody(reset_data, db, t, U) IN
    IF body.out.raised /\ body.out.kind # "HTTPException"
      THEN ResetResult(HTTPException(500, "Password reset failed. Please try again later.", ""), U)
      ELSE body

\* schemas.PasswordResetConfirm: the request body as the schema parses it
\* (fields token and new_password; any other field of the body is dropped)
PasswordResetConfirm(token, new_password) ==
    [token |-> token, new_password |-> new_password]

(***************************************************************************)
(* Admin update of a user record (app/routers/users.py)                    *)
(***************************************************************************)
UpdateResult(out, U) == [out |-> out, users |-> U]

\* user_update maps the fields that were set in the request to their values.
\* The response model UserResponse requires full_name, which the record has
\* only when this request has just set it
update_user_admin(user_id, user_update, token, db, t, U) ==
    LET admin == get_admin_user(token, db, t, U)
        found == ById(U, user_id)
        user == First(found)
    IN  IF admin.raised THEN UpdateResult(admin, U)
        ELSE IF found = {} THEN UpdateResult(HTTPException(404, "User not found", ""), U)
        ELSE IF db = "commit_fails" THEN UpdateResult(Raise("SQLAlchemyError"), U)
        ELSE IF "full_name" \notin DOMAIN user_update
          THEN UpdateResult(Raise("ResponseValidationError"),
                            (U \ {user}) \cup {Update(user, user_update)})
        ELSE UpdateResult(Return(Update(user, user_update)),
                          (U \ {user}) \cup {Update(user, user_update)})

(***************************************************************************)
(* Self-service endpoints: PUT /users/me, PUT /users/me/password           *)
(* (app/routers/users.py) and POST /auth/register (app/routers/auth.py).   *)
(* A request body is a mapping from the fields the client sent to values;  *)
(* a schema keeps the fields it declares and drops the others.             *)
(***************************************************************************)
\* the mapping restricted to the keys in fields
Restrict(mapping, fields) == [k \in DOMAIN mapping \cap fields |-> mapping[k]]

\* the columns and relationships of models.User
UserAttributes ==
    {"id", "email", "first_name", "last_name", "hashed_password", "profile_picture",
     "bio", "role", "is_active", "is_verified", "created_at", "updated_at",
     "courses_enrolled", "courses_created"}

\* schemas.UserUpdate: user_update.dict(exclude_unset=True)
UserUpdate(body) == Restrict(body, {"full_name", "bio", "profile_picture"})

\* schemas.UserUpdatePassword
UserUpdatePassword(body) == Restrict(body, {"current_password", "new_password"})

\* schemas.UserCreate
UserCreate(body) == Restrict(body, {"email", "full_name", "password"})

\* "setattr(current_user, field, value)" and db.commit(): what is no mapped
\* attribute of models.User stays on the Python object and is not stored
Stored(user, fields) == Update(user, Restrict(fields, UserAttributes))

\* PUT /users/me.  The response model UserResponse requires full_name, which
\* the record has only when this request has just set it
update_user(body, token, db, t, U) ==
    LET current_user == get_current_active_user(token, db, t, U)
        user_update == UserUpdate(body)
        user == current_user.value
        updated == Stored(user, user_update)
    IN  IF current_user.raised THEN UpdateResult(current_user, U)
        ELSE IF db = "commit_fails" THEN UpdateResult(Raise("SQLAlchemyError"), U)
        ELSE IF "full_name" \notin DOMAIN user_update
          THEN UpdateResult(Raise("ResponseValidationError"), (U \ {user}) \cup {updated})
        ELSE UpdateResult(Return(updated), (U \ {user}) \cup {updated})

\* PUT /users/me/password
update_password(body, token, db, t, U) ==
    LET current_user == get_current_active_user(token, db, t, U)
        password_update == UserUpdatePassword(body)
        user == current_user.value
        verified == verify_password(password_update["current_password"], user.hashed_password)
        hashed == get_password_hash(password_update["new_password"])
    IN  IF current_user.raised THEN UpdateResult(current_user, U)
        ELSE IF verified.raised THEN UpdateResult(verified, U)
        ELSE IF ~verified.value.is_true
          THEN UpdateResult(HTTPException(400, "Incorrect current password", ""), U)
        ELSE IF hashed.raised THEN UpdateResult(Raise(hashed.error), U)
        ELSE IF db = "commit_fails" THEN UpdateResult(Raise("SQLAlchemyError"), U)
        ELSE UpdateResult(Return([message |-> "Password updated successfully"]),
                          (U \ {user}) \cup {[user EXCEPT !.hashed_password = hashed.hash]})

\* validate_email: the strings of the model that match the pattern
validate_email(email) == email \in {AliceEmail, BobEmail, CarolEmail}

\* str.strip() leaves nothing
Blank(text) == text \in {"", " "}

\* the keyword arguments register constructs models.User with
RegisterKwargs ==
    {"email", "full_name", "hashed_password", "role", "is_active", "is_verified", "created_at"}

\* the declarative constructor takes the attributes of the class and raises
\* TypeError for any other keyword
RegisterKwargsOk == RegisterKwargs \subseteq UserAttributes

\* the primary key the database gives the next row
NextId(U) == IF U = {} THEN 1 ELSE 1 + (CHOOSE m \in {u.id : u \in U} : \A u \in U : u.id <= m)

\* POST /auth/register
register(body, db, U) ==
    LET user == UserCreate(body)
        email == sanitize_input(user["email"])
        full_name == sanitize_input(user["full_name"])
        password_validation == validate_password_strength(user["password"])
        new_user == User(NextId(U), email, user["password"], "user", TRUE)
    IN  IF ~validate_email(email)
          THEN UpdateResult(HTTPException(400, "Invalid email format", ""), U)
        ELSE IF ~password_validation.valid
          THEN UpdateResult(HTTPException(400, password_validation.message, ""), U)
        ELSE IF db = "query_fails" THEN UpdateResult(Raise("SQLAlchemyError"), U)
        ELSE IF ByEmail(U, email) # {}
          THEN UpdateResult(HTTPException(400, "Email address is already in use", ""), U)
        ELSE IF Blank(full_name)
          THEN UpdateResult(HTTPException(400, "Full name is required and cannot be empty", ""), U)
        ELSE IF ~RegisterKwargsOk THEN UpdateResult(Raise("TypeError"), U)
        ELSE IF db = "commit_fails"
          THEN UpdateResult(HTTPException(500, "User registration failed. Please try again later.", ""), U)
        ELSE UpdateResult([Return(new_user) EXCEPT !.status = 201], U \cup {new_user})

(***************************************************************************)
(* The state machine                                                       *)
(***************************************************************************)
StartTime == RefreshTokenSeconds

\* tokens from before the modelled window, signed with the server's key
AliceSession ==
    create_access_token([sub |-> AliceEmail, role |-> "admin", user_id |-> 1],
                        AccessTokenSeconds, StartTime)

OldRefreshToken ==
    create_refresh_token([sub |-> BobEmail, role |-> "user", user_id |-> 2],
                         StartTime - RefreshTokenSeconds + AccessTokenSeconds)

\* correctly signed claims the issuing functions never produce
NoTypeToken ==
    jwt_encode([sub |-> AliceEmail, role |-> "admin",
                exp |-> StartTime + AccessTokenSeconds, iat |-> StartTime])

NoSubjectToken ==
    jwt_encode([role |-> "user", type |-> "access",
                exp |-> StartTime + AccessTokenSeconds, iat |-> StartTime])

GhostToken ==
    create_access_token([sub |-> CarolEmail, role |-> "user", user_id |-> 3],
                        AccessTokenSeconds, StartTime)

CraftedTokens ==
    {AliceSession, OldRefreshToken, NoTypeToken, NoSubjectToken, GhostToken, GarbageToken}

\* what a client can put in a request: the token it holds, that token with
\* its signature broken, and the tokens above
Presentable(h) == (IF h = NoToken THEN {} ELSE {h, Tamper(h)}) \cup CraftedTokens

Usernames == {AliceEmail, BobMarkup, CarolEmail}

Passwords == {AlicePassword, BobPassword, DummyPlain}

NewPasswords == {BobPassword, WeakPassword}

UserUpdates == {[role |-> r] : r \in Roles} \cup {[is_active |-> b] : b \in BOOLEAN}

\* the client keeps one of the tokens it is sent, or stays with what it holds
Kept(h, out) ==
    IF out.raised THEN {h} ELSE {h, out.value.access_token, out.value.refresh_token}

\* no request is being handled
NoRequest == [op |-> "none"]

NoResponse == Respond(Return(NoValue))

NoTrace == [steps |-> <<>>, verify_hash |-> NoHash, state |-> NoState, slept_ms |-> 0]

\* the trace of a request that went through get_current_user
GateTrace(token, db, t, U) == [NoTrace EXCEPT !.state = RequestState(token, db, t, U)]

Idle == req = NoRequest

Init ==
    /\ users = {User(1, AliceEmail, AlicePassword, "admin", TRUE),
                User(2, BobEmail, BobPassword, "user", TRUE)}
    /\ now = StartTime
    /\ held = NoToken
    /\ req = NoRequest
    /\ resp = NoResponse
    /\ trace = NoTrace

\* the response has been sent; the request and its context are dropped
Done ==
    /\ ~Idle
    /\ req' = NoRequest
    /\ resp' = NoResponse
    /\ trace' = NoTrace
    /\ UNCHANGED <<users, now, held>>

\* the clock advances
Tick ==
    /\ Idle
    /\ now + AccessTokenSeconds <= StartTime + MaxTicks * AccessTokenSeconds
    /\ now' = now + AccessTokenSeconds
    /\ UNCHANGED <<users, held, req, resp, trace>>

\* the user table after login: "user.last_login = datetime.utcnow()" and
\* db.commit() store what is a mapped attribute of models.User
LoginCommitted(steps, username, t, U) ==
    IF "commit" \in Range(steps)
      THEN {IF u.email = username THEN Stored(u, [last_login |-> t]) ELSE u : u \in U}
      ELSE U

\* POST /auth/login; the client keeps one of the tokens it is sent, or none
Login ==
    /\ Idle
    /\ \E username \in Usernames, password \in Passwords, db \in {"ok", "query_fails"} :
        LET r == login(username, password, db, now, users) IN
        /\ req' = [op |-> "login", username |-> username, password |-> password, db |-> db]
        /\ resp' = Respond(r.out)
        /\ trace' = [steps |-> r.steps, verify_hash |-> r.verify_hash, state |-> NoState,
                     slept_ms |-> SleptMs(r.steps)]
        /\ held' \in Kept(held, r.out)
        /\ users' = LoginCommitted(r.steps, sanitize_input(username), now, users)
        /\ UNCHANGED now

\* a request to a route that depends on get_current_user
Gate ==
    /\ Idle
    /\ \E token \in Presentable(held), db \in {"ok", "query_fails"} :
        /\ req' = [op |-> "gate", token |-> token, db |-> db]
        /\ resp' = Respond(get_current_user(token, db, now, users))
        /\ trace' = GateTrace(token, db, now, users)
        /\ UNCHANGED <<users, now, held>>

\* a call of decode_token
Decode ==
    /\ Idle
    /\ \E token \in Presentable(held) :
        /\ req' = [op |-> "decode", token |-> token]
        /\ resp' = Respond(decode_token(token, now))
        /\ trace' = NoTrace
        /\ UNCHANGED <<users, now, held>>

\* POST /auth/refresh-token
Refresh ==
    /\ Idle
    /\ \E token \in Presentable(held), db \in {"ok", "query_fails"} :
        LET out == refresh_token(token, db, now, users) IN
        /\ req' = [op |-> "refresh", token |-> token, db |-> db]
        /\ resp' = Respond(out)
        /\ trace' = NoTrace
        /\ held' \in Kept(held, out)
        /\ UNCHANGED <<users, now>>

\* POST /auth/password-reset/confirm
ResetPassword ==
    /\ Idle
    /\ \E token \in Presentable(held), new_password \in NewPasswords, db \in DbModes :
        LET r == reset_password(PasswordResetConfirm(token, new_password), db, now, users) IN
        /\ req' = [op |-> "reset", token |-> token, new_password |-> new_password, db |-> db]
        /\ resp' = Respond(r.out)
        /\ users' = r.users
        /\ trace' = NoTrace
        /\ UNCHANGED <<now, held>>

\* PUT /users/{user_id}
AdminUpdate ==
    /\ Idle
    /\ \E token \in Presentable(held) \cap ({held, AliceSession}),
       user_id \in {1, 2}, user_update \in UserUpdates, db \in {"ok", "commit_fails"} :
        LET r == update_user_admin(user_id, user_update, token, db, now, users) IN
        /\ req' = [op |-> "admin_update", token |-> token, user_id |-> user_id,
                   user_update |-> user_update, db |-> db]
        /\ resp' = Respond(r.out)
        /\ users' = r.users
        /\ trace' = GateTrace(token, db, now, users)
        /\ UNCHANGED <<now, held>>

\* a request to a route that depends on get_admin_user
AdminGate ==
    /\ Idle
    /\ \E token \in Presentable(held), db \in {"ok", "query_fails"} :
        /\ req' = [op |-> "admin_gate", token |-> token, db |-> db]
        /\ resp' = Respond(get_admin_user(token, db, now, users))
        /\ trace' = GateTrace(token, db, now, users)
        /\ UNCHANGED <<users, now, held>>

\* a request to a route that depends on get_instructor_or_admin_user
InstructorGate ==
    /\ Idle
    /\ \E token \in Presentable(held), db \in {"ok", "query_fails"} :
        /\ req' = [op |-> "instructor_gate", token |-> token, db |-> db]
        /\ resp' = Respond(get_instructor_or_admin_user(token, db, now, users))
        /\ trace' = GateTrace(token, db, now, users)
        /\ UNCHANGED <<users, now, held>>

\* the courses and the blog posts on record, with their owners
Courses == {[id |-> 1, instructor_id |-> 1], [id |-> 2, instructor_id |-> 2]}

BlogPosts == {[id |-> 1, author_id |-> 2], [id |-> 3, author_id |-> 1]}

ResourceTypes == {"course", "blog", "lesson"}

ResourceIds == {1, 2, 3}

\* a call of verify_resource_owner
OwnerCheck ==
    /\ Idle
    /\ \E resource_id \in ResourceIds, resource_type \in ResourceTypes,
          user \in users, db \in {"ok", "query_fails"} :
        /\ req' = [op |-> "owner", resource_id |-> resource_id,
                   resource_type |-> resource_type, user_id |-> user.id, db |-> db]
        /\ resp' = Respond(verify_resource_owner(resource_id, resource_type, user.id, db,
                                                 Courses, BlogPosts))
        /\ trace' = NoTrace
        /\ UNCHANGED <<users, now, held>>

Next ==
    \/ Tick \/ Done \/ Login \/ Gate \/ Decode \/ Refresh \/ ResetPassword \/ AdminUpdate
    \/ AdminGate \/ InstructorGate \/ OwnerCheck

Spec == Init /\ [][Next]_vars

(***************************************************************************)
(* The self-service operations, with login, the gate and the clock: what a *)
(* client can do without the admin-gated endpoints.                        *)
(***************************************************************************)
ProfileBodies ==
    {[bio |-> "hi"],
     [bio |-> "hi", role |-> "admin", is_active |-> FALSE],
     [full_name |-> "Bob B", role |-> "instructor"]}

\* PUT /users/me
UpdateProfile ==
    /\ Idle
    /\ \E token \in Presentable(held), body \in ProfileBodies, db \in {"ok", "commit_fails"} :
        LET r == update_user(body, token, db, now, users) IN
        /\ req' = [op |-> "update_user", token |-> token, body |-> body, db |-> db]
        /\ resp' = Respond(r.out)
        /\ users' = r.users
        /\ trace' = GateTrace(token, db, now, users)
        /\ UNCHANGED <<now, held>>

\* PUT /users/me/password
UpdatePassword ==
    /\ Idle
    /\ \E token \in Presentable(held), current_password \in Passwords,
          new_password \in NewPasswords, db \in {"ok", "commit_fails"} :
        LET body == [current_password |-> current_password, new_password |-> new_password]
            r == update_password(body, token, db, now, users)
        IN  /\ req' = [op |-> "update_password", token |-> token, body |-> body, db |-> db]
            /\ resp' = Respond(r.out)
            /\ users' = r.users
            /\ trace' = GateTrace(token, db, now, users)
            /\ UNCHANGED <<now, held>>

RegisterBodies ==
    {[email |-> e, full_name |-> n, password |-> p] :
        e \in {CarolEmail, BobMarkup, AmpEmail}, n \in {"Carol", " "}, p \in NewPasswords}
    \cup {[email |-> CarolEmail, full_name |-> "Carol", password |-> BobPassword,
           role |-> "admin", is_active |-> FALSE]}

\* POST /auth/register
Register ==
    /\ Idle
    /\ \E body \in RegisterBodies, db \in DbModes :
        LET r == register(body, db, users) IN
        /\ req' = [op |-> "register", body |-> body, db |-> db]
        /\ resp' = Respond(r.out)
        /\ users' = r.users
        /\ trace' = NoTrace
        /\ UNCHANGED <<now, held>>

NextSelf ==
    \/ Tick \/ Done \/ Login \/ Gate \/ Refresh \/ ResetPassword
    \/ UpdateProfile \/ UpdatePassword \/ Register

SpecSelf == Init /\ [][NextSelf]_vars

(***************************************************************************)
(* Direct calls of the functions of app/core/security.py and               *)
(* app/core/security_utils.py, over passwords put together from pieces     *)
(* that each bring one feature the policy looks at, and padding that       *)
(* brings none.  resp is what the call evaluated to.                       *)
(***************************************************************************)
MaxPads == 3

Fragments ==
    << <<"Q","M">>, <<"k","m">>, <<"4","7">>, <<"!","#">>,
       <<"a","b","c">>, <<"c","b","a">>, <<"1","2","3">>, <<"3","2","1">>,
       <<"x","x","x">> >>

Pad == <<"_","-","_","-">>

RECURSIVE Join(_, _)
\* the fragments chosen by S, from the i-th on, in order
Join(S, i) ==
    IF i > Len(Fragments) THEN <<>>
    ELSE (IF i \in S THEN Fragments[i] ELSE <<>>) \o Join(S, i + 1)

RECURSIVE Pads(_)
Pads(n) == IF n = 0 THEN <<>> ELSE Pad \o Pads(n - 1)

PolicyInputs ==
    {Join(S, 1) \o Pads(n) : S \in SUBSET DOMAIN Fragments, n \in 0..MaxPads}
    \cup CommonPasswords \cup {AlicePassword, BobPassword, WeakPassword}

\* a call of validate_password_strength
ValidatePassword ==
    /\ Idle
    /\ \E password \in PolicyInputs :
        /\ req' = [op |-> "validate", password |-> password]
        /\ resp' = validate_password_strength(password)
        /\ trace' = NoTrace
        /\ UNCHANGED <<users, now, held>>

\* a call of get_password_hash
HashPassword ==
    /\ Idle
    /\ \E password \in PolicyInputs :
        /\ req' = [op |-> "hash", password |-> password]
        /\ resp' = get_password_hash(password)
        /\ trace' = NoTrace
        /\ UNCHANGED <<users, now, held>>

HashInputs == {BcryptHash(AlicePassword), BcryptHash(BobPassword), MalformedHash, NoHash}

\* a call of verify_password
VerifyPassword ==
    /\ Idle
    /\ \E plain_password \in Passwords, hashed_password \in HashInputs :
        /\ req' = [op |-> "verify", plain_password |-> plain_password,
                   hashed_password |-> hashed_password]
        /\ resp' = verify_password(plain_password, hashed_password)
        /\ trace' = NoTrace
        /\ UNCHANGED <<users, now, held>>

MaxWait == 2

Subjects == {AliceEmail, BobMarkup, AmpEmail}

Lifetimes == {0, 1, AccessTokenSeconds}

\* a call of create_access_token and, wait seconds later, a call of
\* decode_token with the token it returned
IssueAndDecode ==
    /\ Idle
    /\ \E sub \in Subjects, role \in Roles, expires_delta \in Lifetimes, wait \in 0..MaxWait :
        LET token == create_access_token([sub |-> sub, role |-> role], expires_delta, now) IN
        /\ req' = [op |-> "roundtrip", sub |-> sub, role |-> role,
                   expires_delta |-> expires_delta, wait |-> wait, token |-> token]
        /\ resp' = decode_token(token, now + wait)
        /\ trace' = NoTrace
        /\ UNCHANGED <<users, now, held>>

\* claims a caller may pass that collide with the ones the functions set
CallerClaims ==
    {[sub |-> AliceEmail, role |-> "user"],
     [sub |-> AliceEmail, role |-> "user", type |-> "refresh"],
     [sub |-> AliceEmail, role |-> "user", type |-> "access"],
     [sub |-> AliceEmail, role |-> "admin", exp |-> StartTime + RefreshTokenSeconds + RefreshTokenSeconds],
     [sub |-> BobEmail, role |-> "user", iat |-> 0, exp |-> 0],
     [sub |-> BobEmail, type |-> "admin", exp |-> StartTime, iat |-> StartTime + 1]}

\* a call of create_access_token and of create_refresh_token with claims of
\* the caller's own
IssueWithClaims ==
    /\ Idle
    /\ \E data \in CallerClaims, expires_delta \in Lifetimes :
        /\ req' = [op |-> "issue", data |-> data, expires_delta |-> expires_delta]
        /\ resp' = IssueTokens(data, expires_delta, now)
        /\ trace' = NoTrace
        /\ UNCHANGED <<users, now, held>>

NextCalls ==
    \/ Done \/ ValidatePassword \/ HashPassword \/ VerifyPassword \/ IssueAndDecode
    \/ IssueWithClaims

SpecCalls == Init /\ [][NextCalls]_vars

(***************************************************************************)
(* Properties                                                              *)
(***************************************************************************)
Signed(token) == token.form = "jwt" /\ token.sig = "valid"

TypeOf(token) == Get(token.claims, "type", None)

SubjectOf(token) == Get(token.claims, "sub", None)

\* correctly signed and not past its exp claim at the time of the request
SignedUnexpired(token) == Signed(token) /\ now <= token.claims["exp"]

\* the user records a token's subject names
SubjectUsers(token) == ByEmail(users, SubjectOf(token))

NoUserReturned == resp.status # 200 /\ resp.value = NoValue

\* C1: the gate answers every correctly signed, unexpired token whose type
\* claim is not "access" (a refresh token, a token with no type) with the
\* 401 "Could not validate credentials", whatever the user table and the
\* database do, and returns no user.
C1_GateRejectsNonAccess ==
    (req.op = "gate" /\ SignedUnexpired(req.token) /\ TypeOf(req.token) # "access")
        => (resp.status = 401 /\ resp.detail = "Could not validate credentials"
            /\ resp.www = "Bearer" /\ resp.value = NoValue)

\* a refresh token sent by login, for an existing active user, was presented
\* to the gate before its expiry and was refused
C1_Witness ==
    /\ req.op = "gate" /\ req.db = "ok"
    /\ req.token = held /\ SignedUnexpired(held) /\ TypeOf(held) = "refresh"
    /\ \E u \in SubjectUsers(held) : u.is_active
    /\ resp.status = 401

TokensFor(body, user) ==
    /\ Signed(body.access_token) /\ Signed(body.refresh_token)
    /\ TypeOf(body.access_token) = "access" /\ TypeOf(body.refresh_token) = "refresh"
    /\ SubjectOf(body.access_token) = user.email
    /\ SubjectOf(body.refresh_token) = user.email
    /\ body.access_token.claims["role"] = user.role
    /\ body.refresh_token.claims["role"] = user.role
    /\ body.access_token.claims["iat"] = now /\ body.refresh_token.claims["iat"] = now

\* C3: refresh, given a correctly signed, unexpired refresh token whose
\* subject is an existing active user, succeeds and returns a new access
\* token and a new refresh token with that user's email and current role.
C3_RefreshSucceeds ==
    (/\ req.op = "refresh" /\ req.db = "ok"
     /\ SignedUnexpired(req.token) /\ TypeOf(req.token) = "refresh"
     /\ \E u \in SubjectUsers(req.token) : u.is_active)
        => (resp.status = 200
            /\ \A u \in SubjectUsers(req.token) : TokensFor(resp.value, u))

\* C4: decode_token fails on every token whose exp lies before the clock,
\* and returns the claims of every untampered token whose exp lies after it.
C4_DecodeEnforcesExpiry ==
    (req.op = "decode" /\ req.token.form = "jwt")
        => /\ (req.token.claims["exp"] < now) => resp.status # 200
           /\ (now < req.token.claims["exp"] /\ Signed(req.token))
                 => (resp.status = 200 /\ resp.value = req.token.claims)

\* a token sent by login was decoded after its expiry, and decoding failed
C4_Witness ==
    /\ req.op = "decode" /\ req.token = held /\ Signed(held)
    /\ held.claims["exp"] < now
    /\ resp.status = 401

\* C5: every failure of decode_token is the same response: whatever other
\* token fails to decode at the same moment, for whatever cause, yields the
\* response this one got, the 401 "Could not validate credentials".
C5_DecodeFailuresAlike ==
    (req.op = "decode" /\ resp.status # 200)
        => /\ resp.status = 401 /\ resp.detail = "Could not validate credentials"
           /\ resp.www = "Bearer" /\ resp.value = NoValue
           /\ \A other \in Presentable(held) :
                 decode_token(other, now).raised
                    => Respond(decode_token(other, now)) = resp

\* an expired token with a good signature failed to decode while a tampered
\* unexpired one and a malformed one are at hand
C5_Witness ==
    /\ req.op = "decode" /\ Signed(req.token) /\ req.token.claims["exp"] < now
    /\ resp.status = 401
    /\ held # NoToken /\ now <= held.claims["exp"]
    /\ jwt_decode(Tamper(held), now).kind = "JWTError"
    /\ jwt_decode(req.token, now).kind = "ExpiredSignatureError"

\* the lookup of login completed and found an account / found none
LookupFound == req.db # "query_fails" /\ ByEmail(users, sanitize_input(req.username)) # {}

LookupMissing == req.db # "query_fails" /\ ByEmail(users, sanitize_input(req.username)) = {}

Account == First(ByEmail(users, sanitize_input(req.username)))

PasswordVerifies == verify_password(req.password, Account.hashed_password).value.is_true

\* C6: a login whose email matches no account and a login with an existing
\* account's email and a wrong password get the same response: 401,
\* "Invalid login credentials", the same header, no body.
C6_LoginFailuresAlike ==
    (req.op = "login" /\ (LookupMissing \/ (LookupFound /\ ~PasswordVerifies)))
        => /\ resp.status = 401 /\ resp.detail = "Invalid login credentials"
           /\ resp.www = "Bearer" /\ resp.value = NoValue
           /\ \A u \in Usernames, p \in Passwords :
                 (\/ ByEmail(users, sanitize_input(u)) = {}
                  \/ ~verify_password(p, First(ByEmail(users, sanitize_input(u))).hashed_password).value.is_true)
                    => Respond(login(u, p, req.db, now, users).out) = resp

\* a login with an existing account's email and a wrong password was refused
C6_Witness ==
    /\ req.op = "login" /\ LookupFound /\ ~PasswordVerifies
    /\ \E u \in Usernames : ByEmail(users, sanitize_input(u)) = {}
    /\ resp.status = 401

StepIndex(step) == CHOOSE i \in DOMAIN trace.steps : trace.steps[i] = step

Before(a, b) ==
    /\ a \in Range(trace.steps)
    /\ \A j \in DOMAIN trace.steps : trace.steps[j] = b => StepIndex(a) < j

\* C7 as stated: every login attempt calls verify_password before it answers
C7_AlwaysVerifies ==
    req.op = "login"
        => (trace.verify_hash # NoHash
            /\ Before("verify_password", "raise") /\ Before("verify_password", "return"))

\* C7, amended: every login attempt whose user lookup completes calls
\* verify_password before it answers, with the account's stored hash when
\* the lookup found one and with the fixed dummy hash when it found none.
C7_VerifiesAfterLookup ==
    (req.op = "login" /\ (LookupFound \/ LookupMissing))
        => /\ Before("verify_password", "raise") /\ Before("verify_password", "return")
           /\ LookupFound => trace.verify_hash = Account.hashed_password
           /\ LookupMissing => trace.verify_hash = DummyHash

\* a login for an email with no account verified against the dummy hash
C7_Witness ==
    /\ req.op = "login" /\ LookupMissing
    /\ trace.verify_hash = DummyHash
    /\ resp.status = 401

\* C8: login for an existing, inactive account with the correct password is
\* answered 403 "This account has been deactivated", not with the
\* invalid-credentials 401, and carries no token.
C8_InactiveLoginIs403 ==
    (req.op = "login" /\ LookupFound /\ PasswordVerifies /\ ~Account.is_active)
        => (resp.status = 403 /\ resp.detail = "This account has been deactivated"
            /\ resp.value = NoValue)

C8_Witness ==
    /\ req.op = "login" /\ LookupFound /\ PasswordVerifies /\ ~Account.is_active
    /\ resp.status = 403

C10_GateRejectsInactive ==
    (/\ req.op = "gate" /\ SignedUnexpired(req.token) /\ TypeOf(req.token) = "access"
     /\ \E u \in SubjectUsers(req.token) : ~u.is_active)
        => NoUserReturned

\* the user was active when login sent the token and is inactive now
C10_Witness ==
    /\ req.op = "gate" /\ req.db = "ok"
    /\ req.token = held /\ SignedUnexpired(held) /\ TypeOf(held) = "access"
    /\ held # AliceSession
    /\ \E u \in SubjectUsers(held) : ~u.is_active
    /\ NoUserReturned

\* C11: the gate answers a correctly signed, unexpired access token whose
\* subject matches no user record with 401, and one whose user record is
\* inactive with 403; neither is answered as an internal error (500).
C11_GateMissingOrInactive ==
    (/\ req.op = "gate" /\ req.db = "ok"
     /\ SignedUnexpired(req.token) /\ TypeOf(req.token) = "access"
     /\ SubjectOf(req.token) # None)
        => /\ SubjectUsers(req.token) = {} => resp.status = 401
           /\ (\E u \in SubjectUsers(req.token) : ~u.is_active) => resp.status = 403
           /\ (SubjectUsers(req.token) = {} \/ \E u \in SubjectUsers(req.token) : ~u.is_active)
                 => resp.status # 500

\* the user get_current_user resolves for the request's token
Resolved == get_current_user(req.token, req.db, now, users)

\* C12: each role gate, judged on the user the gate resolved, admits exactly
\* its roles: get_admin_user returns the user iff the role is "admin",
\* get_instructor_or_admin_user iff it is "instructor" or "admin"; every
\* other role is refused with 403 and no user.
C12_RoleGatesExact ==
    /\ (req.op = "admin_gate" /\ ~Resolved.raised)
          => IF Resolved.value.role = "admin"
               THEN resp.status = 200 /\ resp.value = Resolved.value
               ELSE resp.status = 403 /\ resp.value = NoValue
    /\ (req.op = "instructor_gate" /\ ~Resolved.raised)
          => IF Resolved.value.role \in {"instructor", "admin"}
               THEN resp.status = 200 /\ resp.value = Resolved.value
               ELSE resp.status = 403 /\ resp.value = NoValue

\* a user whose role was changed to "instructor" logged in and was admitted
\* by the instructor-or-admin gate
C12_Witness ==
    /\ req.op = "instructor_gate" /\ req.token = held
    /\ ~Resolved.raised /\ Resolved.value.role = "instructor"
    /\ resp.status = 200 /\ resp.value = Resolved.value

\* the resources of the request's type with the request's id
Requested ==
    IF req.resource_type = "course" THEN ById(Courses, req.resource_id)
    ELSE IF req.resource_type = "blog" THEN ById(BlogPosts, req.resource_id)
    ELSE {}

OwnerOf(resource) ==
    IF req.resource_type = "course" THEN resource.instructor_id ELSE resource.author_id

Requester == First(ById(users, req.user_id))

\* C13: the ownership check returns true only when the course (the post)
\* exists and its instructor_id (author_id) is the given user id; a
\* requester with the admin role who is not the owner gets no true.
C13_OwnerOnly ==
    (req.op = "owner" /\ resp.status = 200 /\ resp.value.is_true)
        => /\ req.resource_type \in {"course", "blog"}
           /\ Requested # {}
           /\ \A r \in Requested : OwnerOf(r) = req.user_id

\* an admin asked about an existing course of another user and got false
C13_Witness ==
    /\ req.op = "owner" /\ req.db = "ok" /\ req.resource_type = "course"
    /\ Requested # {} /\ \A r \in Requested : OwnerOf(r) # req.user_id
    /\ Requester.role = "admin"
    /\ resp.status = 200 /\ ~resp.value.is_true

\* C19: the ownership check returns a boolean, true or false, and does not
\* raise, for every resource type and id, an id with no resource and an
\* unknown type included.
C19_OwnerCheckReturnsBoolean ==
    (req.op = "owner" /\ req.db = "ok")
        => (resp.status = 200 /\ resp.value.pytype = "bool")

\* the checks of the policy as the settings enable them, in their order,
\* each with the reason it gives
PolicyChecks(p) ==
    << [fails |-> Len(p) < MIN_PASSWORD_LENGTH,
        reason |-> "Password must be at least 12 characters long"],
       [fails |-> PASSWORD_REQUIRE_UPPERCASE /\ \A i \in DOMAIN p : p[i] \notin Range(UpperChars),
        reason |-> "Password must contain at least one uppercase letter"],
       [fails |-> PASSWORD_REQUIRE_LOWERCASE /\ \A i \in DOMAIN p : p[i] \notin Range(LowerChars),
        reason |-> "Password must contain at least one lowercase letter"],
       [fails |-> PASSWORD_REQUIRE_DIGIT /\ \A i \in DOMAIN p : p[i] \notin Range(DigitChars),
        reason |-> "Password must contain at least one digit"],
       [fails |-> PASSWORD_REQUIRE_SPECIAL /\ \A i \in DOMAIN p : p[i] \notin SpecialChars,
        reason |-> "Password must contain at least one special character"],
       [fails |-> Lower(p) \in CommonPasswords,
        reason |-> "This password is too common and easily guessed"],
       [fails |-> HasSequential(Lower(p)),
        reason |-> "Password contains sequential characters"],
       [fails |-> HasRepeated(p),
        reason |-> "Password contains too many repeated characters"] >>

Failing(p) == {i \in DOMAIN PolicyChecks(p) : PolicyChecks(p)[i].fails}

FirstFailing(p) == CHOOSE i \in Failing(p) : \A j \in Failing(p) : i <= j

\* C14: validate_password_strength returns valid iff none of its checks
\* fails, and otherwise the reason of the first failing check in the order
\* length, uppercase, lowercase, digit, special, deny-list, sequential,
\* repeated; a password shorter than the minimum gets the length reason
\* whatever else is wrong with it.
C14_FirstFailingReason ==
    req.op = "validate"
        => /\ resp.valid <=> Failing(req.password) = {}
           /\ ~resp.valid
                 => resp.message = PolicyChecks(req.password)[FirstFailing(req.password)].reason
           /\ Len(req.password) < MIN_PASSWORD_LENGTH
                 => resp.message = "Password must be at least 12 characters long"

\* a password long enough that lacks a digit and a special character and
\* has a sequential and a repeated run was given the digit reason
C14_Witness ==
    /\ req.op = "validate"
    /\ {4, 5, 7, 8} \subseteq Failing(req.password)
    /\ FirstFailing(req.password) = 4
    /\ ~resp.valid /\ resp.message = "Password must contain at least one digit"

\* C15: get_password_hash refuses every password validate_password_strength
\* rejects: it raises the ValueError carrying the policy's first failing
\* reason and produces no hash; for a password that passes it returns a
\* hash of that password.
C15_HashRefusesWeak ==
    req.op = "hash"
        => IF validate_password_strength(req.password).valid
             THEN /\ ~resp.raised /\ resp.hash # NoHash
                  /\ verify_password(req.password, resp.hash) = Return(PyBool(TRUE))
             ELSE /\ resp.raised /\ resp.error = "ValueError"
                  /\ resp.message = PolicyChecks(req.password)[FirstFailing(req.password)].reason
                  /\ resp.hash = NoHash

\* a password of sufficient length with every character class was refused
\* a hash for its sequential run
C15_Witness ==
    /\ req.op = "hash"
    /\ Len(req.password) >= MIN_PASSWORD_LENGTH
    /\ resp.raised /\ resp.message = "Password contains sequential characters"
    /\ resp.hash = NoHash

\* the characters at i, i+1, i+2 follow one another in the alphabet, upwards
\* or downwards
RunAt(p, alphabet, i) ==
    /\ {p[i], p[i+1], p[i+2]} \subseteq Range(alphabet)
    /\ \/ /\ IndexIn(alphabet, p[i+1]) = IndexIn(alphabet, p[i]) + 1
          /\ IndexIn(alphabet, p[i+2]) = IndexIn(alphabet, p[i+1]) + 1
       \/ /\ IndexIn(alphabet, p[i+1]) = IndexIn(alphabet, p[i]) - 1
          /\ IndexIn(alphabet, p[i+2]) = IndexIn(alphabet, p[i+1]) - 1

\* a run of three ascending or descending letters or digits, anywhere
HasRun(p) ==
    \E i \in 1..(Len(p) - 2) :
        RunAt(Lower(p), LowerChars, i) \/ RunAt(Lower(p), DigitChars, i)

\* C17: validate_password_strength rejects every password that contains a
\* run of three consecutive ascending or descending characters, letters or
\* digits ("abc", "cba", "123", "321").
C17_RejectsEveryRun ==
    (req.op = "validate" /\ HasRun(req.password)) => ~resp.valid

\* C18: verify_password does not raise: for every plain password and every
\* hash, a malformed or unrecognised one included, it returns a boolean,
\* and for a malformed hash that boolean is false.
C18_VerifyNeverRaises ==
    req.op = "verify"
        => /\ ~resp.raised /\ resp.value.pytype = "bool"
           /\ req.hashed_password.scheme # "bcrypt" => ~resp.value.is_true

\* the token of the request was decoded before its expiry
DecodedBeforeExpiry == req.op = "roundtrip" /\ now + req.wait < req.token.claims["exp"]

\* C16 as stated: decoding a token of create_access_token before its expiry
\* yields the subject and the role it was issued for, and the type "access"
C16_RoundTrip ==
    DecodedBeforeExpiry
        => /\ ~resp.raised
           /\ resp.value["sub"] = req.sub /\ resp.value["role"] = req.role
           /\ resp.value["type"] = "access"

\* C16, amended: decoding a token of create_access_token before its expiry
\* yields the sanitized subject and the sanitized role it was issued for,
\* and the type "access"; the subject and the role themselves exactly when
\* sanitizing leaves them as they are.
C16_RoundTripSanitized ==
    DecodedBeforeExpiry
        => /\ ~resp.raised
           /\ resp.value["sub"] = sanitize_input(req.sub)
           /\ resp.value["role"] = sanitize_input(req.role)
           /\ resp.value["type"] = "access"
           /\ resp.value["sub"] = req.sub <=> sanitize_input(req.sub) = req.sub

\* a token issued for a subject with markup was decoded a second later and
\* carried the subject without the markup
C16_Witness ==
    /\ DecodedBeforeExpiry /\ req.wait > 0
    /\ req.sub = BobMarkup /\ req.role = "instructor"
    /\ ~resp.raised /\ resp.value["sub"] = BobEmail /\ resp.value["type"] = "access"

\* the decoded payload of the request's token names a type "access" and a
\* subject: the gate goes on to look the user up
ReachesLookup ==
    /\ SignedUnexpired(req.token) /\ TypeOf(req.token) = "access"
    /\ SubjectOf(req.token) # None

\* C20: when the user lookup of the gate raises an unexpected exception, the
\* gate itself raises the HTTP error 500 "Internal server error", the same
\* whatever the cause, with no header and no body; the exception of the
\* lookup does not leave the gate.
C20_LookupFailureIsGeneric500 ==
    (req.op = "gate" /\ req.db = "query_fails" /\ ReachesLookup)
        => /\ Resolved.raised /\ Resolved.kind = "HTTPException"
           /\ Resolved.status = 500 /\ Resolved.detail = "Internal server error"
           /\ resp = [status |-> 500, detail |-> "Internal server error",
                      www |-> "", value |-> NoValue]

\* the lookup failed for the token a login had sent for an existing, active
\* user
C20_Witness ==
    /\ req.op = "gate" /\ req.db = "query_fails" /\ req.token = held /\ ReachesLookup
    /\ \E u \in SubjectUsers(held) : u.is_active
    /\ GateLookup(SubjectOf(held), req.db, users).kind = "SQLAlchemyError"
    /\ resp.status = 500

\* C21: when the gate succeeds, the identity attached to the request (user
\* id, email, role) is that of the user record the gate resolved: id, email
\* and role equal the record's at the time of the request.
C21_AttachedIdentityIsRecord ==
    (req.op = "gate" /\ resp.status = 200)
        => /\ trace.state.user_id = resp.value.id
           /\ trace.state.user_email = resp.value.email
           /\ trace.state.user_role = resp.value.role

\* C22: every 401 "Invalid login credentials" of login comes after the
\* delay of at least 500 ms within the same request: the sleep follows the
\* failed verification and precedes the raise, when no account was found
\* and when the password was wrong alike.
C22_DelayBeforeInvalidCredentials ==
    (req.op = "login" /\ resp.status = 401 /\ resp.detail = "Invalid login credentials")
        => /\ Before("verify_password", "sleep")
           /\ Before("sleep", "raise")
           /\ trace.slept_ms >= 500

\* a login with a wrong password for an existing account was delayed and
\* refused, while a login for an unknown email would be, too
C22_Witness ==
    /\ req.op = "login" /\ LookupFound /\ ~PasswordVerifies
    /\ resp.status = 401 /\ trace.slept_ms >= 500
    /\ \E u \in Usernames :
          /\ ByEmail(users, sanitize_input(u)) = {}
          /\ "sleep" \in Range(login(u, req.password, req.db, now, users).steps)

\* C23: there is no revocation: the gate accepts every correctly signed
\* access token at every time up to its expiry while its subject's user
\* record exists and is active, whatever password change, password reset,
\* login or refresh has happened since it was issued, and returns that
\* record.
C23_NoRevocation ==
    (/\ req.op = "gate" /\ req.db = "ok" /\ ReachesLookup
     /\ \E u \in SubjectUsers(req.token) : u.is_active)
        => (resp.status = 200 /\ resp.value \in SubjectUsers(req.token))

\* the access token alice held from the start was accepted, a clock step
\* after its issue, by which time she had changed her password and logged
\* in anew
C23_Witness ==
    /\ req.op = "gate" /\ req.db = "ok" /\ req.token = AliceSession
    /\ AliceSession.claims["iat"] < now
    /\ \E u \in SubjectUsers(AliceSession) :
          u.hashed_password # BcryptHash(AlicePassword)
    /\ held # NoToken /\ held # AliceSession /\ SubjectOf(held) = AliceEmail
    /\ resp.status = 200

\* C24: login for an email that matches no account does not succeed, for
\* any password, the one that verifies against the dummy hash included: it
\* is answered with the 401 "Invalid login credentials" and no token.
C24_UnknownNeverSucceeds ==
    (req.op = "login" /\ LookupMissing)
        => (resp.status = 401 /\ resp.detail = "Invalid login credentials"
            /\ resp.value = NoValue)

\* a login for an unknown email with the password of the dummy hash was
\* verified against the dummy hash and refused
C24_Witness ==
    /\ req.op = "login" /\ LookupMissing
    /\ verify_password(req.password, DummyHash).value.is_true
    /\ trace.verify_hash = DummyHash
    /\ resp.status = 401

\* C25: a login for an inactive account with a wrong password gets exactly
\* the response a login for an unknown account gets, the delayed 401; the
\* 403 of the deactivated account is answered only when the password
\* verifies against the account's hash.
C25_InactiveHiddenWithoutPassword ==
    req.op = "login"
        => /\ (LookupFound /\ ~Account.is_active /\ ~PasswordVerifies)
                 => /\ resp.status = 401 /\ "sleep" \in Range(trace.steps)
                    /\ \A u \in Usernames :
                          ByEmail(users, sanitize_input(u)) = {}
                             => /\ Respond(login(u, req.password, req.db, now, users).out) = resp
                                /\ "sleep" \in Range(login(u, req.password, req.db, now, users).steps)
           /\ resp.status = 403 => (LookupFound /\ ~Account.is_active /\ PasswordVerifies)

\* a login for a deactivated account with a wrong password was answered 401
C25_Witness ==
    /\ req.op = "login" /\ LookupFound /\ ~Account.is_active /\ ~PasswordVerifies
    /\ \E u \in Usernames : ByEmail(users, sanitize_input(u)) = {}
    /\ resp.status = 401 /\ resp.detail = "Invalid login credentials"

\* in steps, a occurs and every b comes after its first occurrence
BeforeIn(steps, a, b) ==
    /\ a \in Range(steps)
    /\ \A j \in DOMAIN steps :
          steps[j] = b => (CHOOSE i \in DOMAIN steps : steps[i] = a /\ \A k \in 1..(i-1) : steps[k] # a) < j

AccessLifetime == IF req.expires_delta # 0 THEN req.expires_delta ELSE ACCESS_TOKEN_EXPIRE_MINUTES * 60

\* C27: the type, exp and iat claims of an issued token are the issuing
\* function's, whatever "type", "exp" or "iat" the caller's mapping holds:
\* "access" from create_access_token, "refresh" from create_refresh_token,
\* iat the time of the call and exp that time plus the lifetime; the
\* caller's mapping is as it was.
C27_IssuerFixesTypeExpIat ==
    req.op = "issue"
        => /\ resp.access_token.claims["type"] = "access"
           /\ resp.refresh_token.claims["type"] = "refresh"
           /\ resp.access_token.claims["iat"] = now
           /\ resp.refresh_token.claims["iat"] = now
           /\ resp.access_token.claims["exp"] = now + AccessLifetime
           /\ resp.refresh_token.claims["exp"] = now + REFRESH_TOKEN_EXPIRE_DAYS * 86400
           /\ resp.data = req.data

\* tokens were issued from a mapping with a type, an exp and an iat of its own
C27_Witness ==
    /\ req.op = "issue"
    /\ {"type", "exp", "iat"} \subseteq DOMAIN req.data
    /\ req.data["type"] \notin {"access", "refresh"}
    /\ req.data["exp"] # now + AccessLifetime /\ req.data["iat"] # now
    /\ resp.access_token.claims["type"] = "access"
    /\ resp.refresh_token.claims["type"] = "refresh"

\* the role claim of the request's token is not the role of the user record
\* the gate resolved: the role was changed after the token was issued
RoleChangedSinceIssue ==
    ~Resolved.raised /\ Get(req.token.claims, "role", None) # Resolved.value.role

\* C28: a request with a token issued before its user's role was changed is
\* authorized by the role gates according to the role the record has now:
\* a demoted admin is refused by the admin gate, a promoted user admitted.
C28_GatesUseStoredRole ==
    /\ (req.op = "admin_gate" /\ RoleChangedSinceIssue)
          => (resp.status = 200 <=> Resolved.value.role = "admin")
    /\ (req.op = "instructor_gate" /\ RoleChangedSinceIssue)
          => (resp.status = 200 <=> Resolved.value.role \in {"instructor", "admin"})

\* alice, no longer admin, was refused by the admin gate with the token
\* that says "admin"
C28_Witness ==
    /\ req.op = "admin_gate" /\ req.token = AliceSession
    /\ RoleChangedSinceIssue /\ Resolved.value.role = "user"
    /\ resp.status = 403

\* every account has the role and the is_active flag it was created with:
\* the two accounts of the start theirs, a registered one "user" and true
SelfServiceKeepsRoles ==
    \A u \in users :
        /\ u.id = 1 => (u.role = "admin" /\ u.is_active)
        /\ u.id # 1 => (u.role = "user" /\ u.is_active)

\* the registration request names a well-formed email, a password that
\* passes the policy and a full name, and the database works
Registrable ==
    /\ req.op = "register" /\ req.db = "ok"
    /\ validate_email(sanitize_input(req.body["email"]))
    /\ validate_password_strength(req.body["password"]).valid
    /\ ~Blank(req.body["full_name"])

\* C29: no operation open to a caller without the admin role changes a
\* role or an is_active flag: the profile update and the password update
\* leave both as they are, and a registration creates the account with
\* role "user" and is_active true whatever its body says.
C29_NoSelfServiceEscalation ==
    /\ SelfServiceKeepsRoles
    /\ Registrable
          => /\ resp.status \in {201, 400}
             /\ \E u \in ByEmail(users, sanitize_input(req.body["email"])) :
                   resp.status = 201 => (u = resp.value /\ u.role = "user" /\ u.is_active)

\* the accounts a reset request is for, in the user table U
ResetAccounts(request, U) == ByEmail(U, SubjectOf(request.token))

\* the request carries a correctly signed, unexpired token that names an
\* existing user, and a new password that passes the policy
ResetEligible(request, t, U) ==
    /\ request.db = "ok"
    /\ Signed(request.token) /\ t <= request.token.claims["exp"]
    /\ ResetAccounts(request, U) # {}
    /\ validate_password_strength(request.new_password).valid

\* C30: a password-reset confirmation with a correctly signed, unexpired
\* token naming an existing user and a new password that passes the policy
\* answers success and replaces that user's stored hash, so that the new
\* password verifies and the old one no longer does; every other
\* confirmation leaves the user table as it was.
C30_ResetReplacesHash ==
    [][req'.op = "reset"
         => IF ResetEligible(req', now, users)
              THEN /\ resp'.status = 200
                   /\ \A u \in ResetAccounts(req', users') :
                         /\ verify_password(req'.new_password, u.hashed_password).value.is_true
                         /\ \A old \in ResetAccounts(req', users) :
                               old.hashed_password # BcryptHash(req'.new_password)
                                  => u.hashed_password # old.hashed_password
              ELSE users' = users]_vars

====
